---------------------------- MODULE Spec2Model ----------------------------
(***************************************************************************)
(* A model of theanolm's class vocabulary (theanolm/vocabulary.py) and of  *)
(* its word lattice decoder (theanolm/scoring/latticedecoder.py).          *)
(*                                                                         *)
(* Python lists and 0-based IDs are kept as they are in the source: a      *)
(* list is a TLA+ sequence and the element with ID i is At(list, i).       *)
(* Floating point membership probabilities are exact rationals <<n, d>>;   *)
(* log-probabilities are integers, and exp()/log() are modelled by the     *)
(* integer-rounded natural logarithm of the value they produce, with the   *)
(* underflow limits of the two number representations the code uses.      *)
(***************************************************************************)
EXTENDS Integers, Sequences, FiniteSets, TLC

(***************************************************************************)
(* Bounds of the model.                                                    *)
(***************************************************************************)
MaxLines == 3
MaxNodes == 3
MaxLinks == 2

(***************************************************************************)
(* Generic helpers for Python lists and dicts.                             *)
(***************************************************************************)
At(list, i) == list[i + 1]

Ids(list) == 0 .. (Len(list) - 1)

Last(list) == list[Len(list)]

Abs(n) == IF n < 0 THEN -n ELSE n

RECURSIVE Gcd(_, _)
Gcd(a, b) == IF b = 0 THEN a ELSE Gcd(b, a % b)

(***************************************************************************)
(* Membership probabilities: a float is the exact rational <<n, d>>, kept  *)
(* in lowest terms with d > 0, so that equal values are equal tuples.      *)
(***************************************************************************)
Rat(n, d) ==
    LET g == Gcd(Abs(n), Abs(d))
        s == IF d < 0 THEN -1 ELSE 1
    IN  <<(s * n) \div g, (s * d) \div g>>

RatZero == Rat(0, 1)

RatOne == Rat(1, 1)

RatAdd(p, q) == Rat(p[1] * q[2] + q[1] * p[2], p[2] * q[2])

RatDiv(p, q) == Rat(p[1] * q[2], p[2] * q[1])

RECURSIVE RatSum(_)
RatSum(ps) == IF ps = << >> THEN RatZero ELSE RatAdd(Head(ps), RatSum(Tail(ps)))

(***************************************************************************)
(* Text fields of a vocabulary file.  int() and float() are tables over    *)
(* the field alphabet: "07" and "7" are the same integer, "X" and "p" are  *)
(* not numbers.                                                            *)
(***************************************************************************)
IntLiterals == {"7", "07", "9"}

IntValue(s) == CASE s = "7" -> 7 [] s = "07" -> 7 [] s = "9" -> 9 [] OTHER -> 0

FloatLiterals == {"0", "2", "1"}

FloatValue(s) ==
    CASE s = "0" -> Rat(0, 1) [] s = "2" -> Rat(2, 1) [] s = "1" -> Rat(1, 1)
      [] OTHER -> RatZero

SpecialWords == <<"<s>", "</s>", "<unk>">>

(***************************************************************************)
(* Vocabulary.WordClass                                                    *)
(***************************************************************************)
\* WordClass.__init__ stores the builtin function id, not its class_id argument.
BuiltinId == "<built-in function id>"

WordClass(class_id, word_id, prob) ==
    [id |-> BuiltinId, probs |-> << [word_id |-> word_id, prob |-> prob] >>]

\* self.probs[word_id] = prob on an ordered dict: overwrite in place or append.
WordClassAdd(wc, word_id, prob) ==
    IF \E i \in 1 .. Len(wc.probs) : wc.probs[i].word_id = word_id
    THEN [wc EXCEPT !.probs =
            [i \in 1 .. Len(wc.probs) |->
                IF wc.probs[i].word_id = word_id
                THEN [word_id |-> word_id, prob |-> prob]
                ELSE wc.probs[i]]]
    ELSE [wc EXCEPT !.probs = Append(@, [word_id |-> word_id, prob |-> prob])]

ProbSum(wc) == RatSum([i \in 1 .. Len(wc.probs) |-> wc.probs[i].prob])

\* normalize_probs divides by the sum; a zero sum raises ZeroDivisionError.
CanNormalize(wc) == ProbSum(wc) # RatZero

normalize_probs_unscaled(wc) == wc

normalize_probs(wc) ==
    LET prob_sum == ProbSum(wc)
    IN  [wc EXCEPT !.probs =
            [i \in 1 .. Len(wc.probs) |->
                [word_id |-> wc.probs[i].word_id,
                 prob |-> RatDiv(wc.probs[i].prob, prob_sum)]]]

HasMember(wc, word_id) == \E i \in 1 .. Len(wc.probs) : wc.probs[i].word_id = word_id

\* WordClass.get_prob: self.probs[word_id] (KeyError when word_id is no member).
get_prob(wc, word_id) ==
    (CHOOSE e \in {wc.probs[i] : i \in 1 .. Len(wc.probs)} : e.word_id = word_id).prob


(***************************************************************************)
(* Vocabulary.__init__                                                     *)
(*                                                                         *)
(* A factory's outcome is [err, vocab]: err is "none" and vocab the        *)
(* vocabulary, or err names the exception raised and no vocabulary exists. *)
(***************************************************************************)
EmptyDict == [x \in {} |-> 0]

NoVocabulary ==
    [id_to_word |-> << >>, word_to_id |-> EmptyDict, word_id_to_class_id |-> << >>,
     word_classes |-> << >>, first_normal_word_id |-> 0, first_normal_class_id |-> 0]

Raised(e) == [err |-> e, vocab |-> NoVocabulary]

\* One of the three "if not '<s>' in word_to_class_id" blocks.
AddSpecial(v, word, word_to_class_id) ==
    IF word \in DOMAIN word_to_class_id THEN v
    ELSE [v EXCEPT !.id_to_word = Append(@, word),
                   !.word_id_to_class_id = Append(@, Len(v.word_classes)),
                   !.word_classes =
                       Append(@, WordClass(Len(v.word_classes), Len(v.id_to_word), RatOne))]

\* word_class.probs = {first_normal_word_id + word_id: prob ...}
ShiftWordIds(wc, first_normal_word_id) ==
    [wc EXCEPT !.probs =
        [i \in 1 .. Len(wc.probs) |->
            [word_id |-> first_normal_word_id + wc.probs[i].word_id,
             prob |-> wc.probs[i].prob]]]

\* {word: word_id for word_id, word in enumerate(self.id_to_word)}: the last
\* ID of a word wins.
WordToId(words) ==
    [w \in {words[i] : i \in 1 .. Len(words)} |->
        CHOOSE i \in Ids(words) :
            /\ At(words, i) = w
            /\ \A j \in Ids(words) : At(words, j) = w => j <= i]

ClassIdOfInputWordUnshifted(first_normal_class_id, class_index) == class_index

ClassIdOfInputWord(first_normal_class_id, class_index) ==
    first_normal_class_id + class_index

VocabularyInit(id_to_word, word_to_class_id, word_classes) ==
    LET v0 == [id_to_word |-> << >>, word_id_to_class_id |-> << >>,
               word_classes |-> << >>]
        v1 == AddSpecial(v0, "<s>", word_to_class_id)
        v2 == AddSpecial(v1, "</s>", word_to_class_id)
        v3 == AddSpecial(v2, "<unk>", word_to_class_id)
        first_normal_word_id == Len(v3.id_to_word)
        first_normal_class_id == Len(v3.word_classes)
        all_words == v3.id_to_word \o id_to_word
        class_ids ==
            v3.word_id_to_class_id \o
            [i \in 1 .. Len(id_to_word) |->
                ClassIdOfInputWord(first_normal_class_id,
                                   word_to_class_id[id_to_word[i]])]
        shifted ==
            [i \in 1 .. Len(word_classes) |->
                ShiftWordIds(word_classes[i], first_normal_word_id)]
    IN  IF \E i \in 1 .. Len(shifted) : ~CanNormalize(shifted[i])
        THEN Raised("ZeroDivisionError")
        ELSE [err |-> "none",
              vocab |->
                [id_to_word |-> all_words,
                 word_to_id |-> WordToId(all_words),
                 word_id_to_class_id |-> class_ids,
                 word_classes |->
                     v3.word_classes \o
                     [i \in 1 .. Len(shifted) |-> normalize_probs(shifted[i])],
                 first_normal_word_id |-> first_normal_word_id,
                 first_normal_class_id |-> first_normal_class_id]]

(***************************************************************************)
(* Vocabulary.from_file                                                    *)
(*                                                                         *)
(* A line is the list of its whitespace separated fields (line.split());   *)
(* a blank line is the empty list.                                         *)
(***************************************************************************)
FieldCount(input_format) ==
    CASE input_format = "words" -> 1
      [] input_format = "classes" -> 2
      [] input_format = "srilm-classes" -> 3
      [] OTHER -> 0

\* The if/elif chain of the loop body: [err, word, file_id, prob].
ParseLine(fields, input_format) ==
    IF input_format = "words" /\ Len(fields) = 1
    THEN [err |-> "none", word |-> fields[1], file_id |-> <<"None">>, prob |-> RatOne]
    ELSE IF input_format = "classes" /\ Len(fields) = 2
    THEN IF fields[2] \in IntLiterals
         THEN [err |-> "none", word |-> fields[1],
               file_id |-> <<"int", IntValue(fields[2])>>, prob |-> RatOne]
         ELSE [err |-> "ValueError", word |-> "", file_id |-> <<"None">>,
               prob |-> RatOne]
    ELSE IF input_format = "srilm-classes" /\ Len(fields) = 3
    THEN IF fields[2] \in FloatLiterals
         THEN [err |-> "none", word |-> fields[3],
               file_id |-> <<"str", fields[1]>>, prob |-> FloatValue(fields[2])]
         ELSE [err |-> "ValueError", word |-> "", file_id |-> <<"None">>,
               prob |-> RatOne]
    ELSE [err |-> "InputError", word |-> "", file_id |-> <<"None">>, prob |-> RatOne]

RegisterFileIdNever(file_id_to_class_id, file_id, class_id) == file_id_to_class_id

\* if not file_id is None: file_id_to_class_id[file_id] = class_id
RegisterFileId(file_id_to_class_id, file_id, class_id) ==
    IF file_id # <<"None">> THEN file_id_to_class_id @@ (file_id :> class_id)
    ELSE file_id_to_class_id

\* The rest of the loop body, from "word_id = len(id_to_word)" on.
AssignClass(acc, word, file_id, prob) ==
    LET word_id == Len(acc.id_to_word)
        id_to_word == Append(acc.id_to_word, word)
    IN  IF word \in DOMAIN acc.word_to_class_id
        THEN [acc EXCEPT !.err = "InputError", !.id_to_word = id_to_word]
        ELSE IF file_id \in DOMAIN acc.file_id_to_class_id
        THEN LET class_id == acc.file_id_to_class_id[file_id]
             IN  [acc EXCEPT
                    !.id_to_word = id_to_word,
                    !.word_classes[class_id + 1] = WordClassAdd(@, word_id, prob),
                    !.word_to_class_id = @ @@ (word :> class_id)]
        ELSE LET class_id == Len(acc.word_classes)
             IN  [acc EXCEPT
                    !.id_to_word = id_to_word,
                    !.word_classes = Append(@, WordClass(class_id, word_id, prob)),
                    !.file_id_to_class_id = RegisterFileId(@, file_id, class_id),
                    !.word_to_class_id = @ @@ (word :> class_id)]

ReadLine(acc, fields, input_format) ==
    IF acc.err # "none" \/ fields = << >> THEN acc
    ELSE LET p == ParseLine(fields, input_format)
         IN  IF p.err # "none" THEN [acc EXCEPT !.err = p.err]
             ELSE AssignClass(acc, p.word, p.file_id, p.prob)

RECURSIVE ReadLines(_, _, _)
ReadLines(acc, input_file, input_format) ==
    IF input_file = << >> THEN acc
    ELSE ReadLines(ReadLine(acc, Head(input_file), input_format),
                   Tail(input_file), input_format)

from_file(input_file, input_format) ==
    LET acc0 == [err |-> "none", id_to_word |-> << >>, word_to_class_id |-> EmptyDict,
                 word_classes |-> << >>, file_id_to_class_id |-> EmptyDict]
        acc == ReadLines(acc0, input_file, input_format)
    IN  IF acc.err # "none" THEN Raised(acc.err)
        ELSE VocabularyInit(acc.id_to_word, acc.word_to_class_id, acc.word_classes)

(***************************************************************************)
(* Vocabulary.from_word_counts                                             *)
(*                                                                         *)
(* word_counts is the dict as the list of its items, in insertion order;   *)
(* num_classes is a number, or NumClassesNone for None.                    *)
(***************************************************************************)
NumClassesNone == -1

\* sorted(word_counts.items(), key=lambda x: x[1]): stable, ascending count.
RECURSIVE InsertByCount(_, _)
InsertByCount(sorted, item) ==
    IF sorted = << >> THEN <<item>>
    ELSE IF Last(sorted)[2] <= item[2] THEN Append(sorted, item)
    ELSE Append(InsertByCount(SubSeq(sorted, 1, Len(sorted) - 1), item), Last(sorted))

RECURSIVE SortedByCount(_)
SortedByCount(items) ==
    IF items = << >> THEN << >>
    ELSE InsertByCount(SortedByCount(SubSeq(items, 1, Len(items) - 1)), Last(items))

RECURSIVE CountWords(_, _, _, _)
CountWords(acc, items, class_id, num_classes) ==
    IF items = << >> \/ acc.err # "none" THEN acc
    ELSE LET word == Head(items)[1]
             word_id == Len(acc.id_to_word)
             placed ==
                [acc EXCEPT
                    !.id_to_word = Append(@, word),
                    !.word_classes =
                        IF class_id < Len(acc.word_classes)
                        THEN [@ EXCEPT ![class_id + 1] =
                                 WordClassAdd(@, word_id, RatOne)]
                        ELSE Append(@, WordClass(class_id, word_id, RatOne)),
                    !.word_to_class_id = @ @@ (word :> class_id)]
         IN  IF num_classes = 0
             THEN [placed EXCEPT !.err = "ZeroDivisionError"]
             ELSE CountWords(placed, Tail(items), (class_id + 1) % num_classes,
                             num_classes)

from_word_counts(word_counts, num_classes) ==
    LET n == IF num_classes = NumClassesNone THEN Len(word_counts) ELSE num_classes
        acc0 == [err |-> "none", id_to_word |-> << >>, word_to_class_id |-> EmptyDict,
                 word_classes |-> << >>]
        acc == CountWords(acc0, SortedByCount(word_counts), 0, n)
    IN  IF acc.err # "none" THEN Raised(acc.err)
        ELSE VocabularyInit(acc.id_to_word, acc.word_to_class_id, acc.word_classes)

(***************************************************************************)
(* Vocabulary lookups                                                      *)
(***************************************************************************)
num_words(v) == Len(v.id_to_word)

num_classes(v) == Len(v.word_classes)

Label(tag, word, class_id) == [tag |-> tag, word |-> word, class_id |-> class_id]

\* Vocabulary._class_name
class_name(v, word_class) ==
    IF Len(word_class.probs) = 1
    THEN Label("word", At(v.id_to_word, word_class.probs[1].word_id), -1)
    ELSE IF word_class.id = "None"
    THEN Label("CLASS", "", -1)
    ELSE IF word_class.id = BuiltinId
    THEN Label("TypeError", "", -1)
    ELSE Label("CLASS-", "", -1)

\* word_ids_to_classes([word_id]): the class list is indexed by the word ID.
ClassIndexForLabel(v, word_id) == word_id

word_id_to_class_label(v, word_id) ==
    LET i == ClassIndexForLabel(v, word_id)
    IN  IF i \notin Ids(v.word_classes) THEN Label("IndexError", "", -1)
        ELSE class_name(v, At(v.word_classes, i))

\* Vocabulary.get_word_prob: [err, prob].
get_word_prob(v, word_id) ==
    LET class_id == At(v.word_id_to_class_id, word_id)
        word_class == At(v.word_classes, class_id)
    IN  IF HasMember(word_class, word_id)
        THEN [err |-> "none", prob |-> get_prob(word_class, word_id)]
        ELSE [err |-> "KeyError", prob |-> RatZero]

(***************************************************************************)
(* LatticeDecoder.Token.compute_total_logprob                              *)
(*                                                                         *)
(* A probability is [zero, ln]: exactly zero, or the number whose natural  *)
(* logarithm, rounded to an integer, is ln.  math.exp() gives 0.0 below    *)
(* -745 and the smallest subnormal double, exp(-744.44), at -745; the      *)
(* Decimal exp() of precision 16 gives 0 below -2302618 and 1E-1000014,    *)
(* exp(-2302617.33), at -2302618.                                          *)
(***************************************************************************)
MinDoubleExpArg == -745

MinDecimalExpArg == -2302618

\* The least arguments whose exp() is a normal number of the representation
\* (a double from 2.2E-308, a Decimal from 1E-999999), computed to its full
\* precision.
MinNormalDoubleExpArg == -708

MinNormalDecimalExpArg == -2302582

\* float('-inf'): below every sum of the model's log-probabilities.
NegInfinity == -100000000

ZeroProb == [zero |-> TRUE, ln |-> 0]

ExpWithLimit(x, min_arg) ==
    IF x < min_arg THEN ZeroProb
    ELSE [zero |-> FALSE, ln |-> IF x = min_arg THEN x + 1 ELSE x]

\* math.exp(x)
FloatExp(x) == ExpWithLimit(x, MinDoubleExpArg)

\* Decimal(x).exp()
DecimalExpAsFloat(x) == ExpWithLimit(x, MinDoubleExpArg)

DecimalExp(x) == ExpWithLimit(x, MinDecimalExpArg)

\* weight * prob, for the weights 0.0 and 1.0.
Weighted(weight, prob) == IF weight = 0 THEN ZeroProb ELSE prob

ProbAdd(p, q) ==
    IF p.zero THEN q
    ELSE IF q.zero THEN p
    ELSE [zero |-> FALSE,
          ln |-> IF p.ln = q.ln THEN p.ln + 1 ELSE IF p.ln > q.ln THEN p.ln ELSE q.ln]

\* Decimal.ln() of zero is -Infinity; float() of it is -inf.
DecimalLn(p) == IF p.zero THEN NegInfinity ELSE p.ln

UsesFallback(lat_lm_logprob, nn_lm_logprob) ==
    ~(~FloatExp(lat_lm_logprob).zero /\ ~FloatExp(nn_lm_logprob).zero)

InterpolatedLogprob(lat_lm_logprob, nn_lm_logprob, nn_lm_weight) ==
    LET lat_lm_prob == FloatExp(lat_lm_logprob)
        nn_lm_prob == FloatExp(nn_lm_logprob)
    IN  IF ~lat_lm_prob.zero /\ ~nn_lm_prob.zero
        THEN ProbAdd(Weighted(1 - nn_lm_weight, lat_lm_prob),
                     Weighted(nn_lm_weight, nn_lm_prob)).ln
        ELSE DecimalLn(ProbAdd(Weighted(1 - nn_lm_weight, DecimalExp(lat_lm_logprob)),
                               Weighted(nn_lm_weight, DecimalExp(nn_lm_logprob))))

compute_total_logprob(ac_logprob, lat_lm_logprob, nn_lm_logprob, nn_lm_weight, lm_scale) ==
    LET lm_logprob == InterpolatedLogprob(lat_lm_logprob, nn_lm_logprob, nn_lm_weight)
    IN  IF lm_logprob = NegInfinity THEN NegInfinity
        ELSE ac_logprob + lm_logprob * lm_scale

(***************************************************************************)
(* The word lattice handed to LatticeDecoder.decode                        *)
(*                                                                         *)
(* Nodes are 0 .. nnodes-1 and every link leads to a higher node ID, so    *)
(* ascending node ID is an ordering consistent with link direction.        *)
(* node.out_links is the list of the links that start at the node, in      *)
(* the order of lattice.links.  lattice.sorted_nodes() lists every node    *)
(* (all_nodes) or only the nodes reachable from the initial node.          *)
(***************************************************************************)
LinkKinds ==
    { [word |-> "a", ac_logprob |-> -1, lm_logprob |-> -2],
      [word |-> "b", ac_logprob |-> -2, lm_logprob |-> -1],
      [word |-> "!NULL", ac_logprob |-> -1, lm_logprob |-> -3],
      [word |-> "zzz", ac_logprob |-> -1, lm_logprob |-> -1] }

\* link.word.startswith('!')
StartsWithBang(word) == word \in {"!NULL", "!ENTER", "!EXIT"}

LinksOf(nnodes) ==
    { x \in { [start_node |-> s, end_node |-> e, word |-> k.word,
               ac_logprob |-> k.ac_logprob, lm_logprob |-> k.lm_logprob] :
                s \in 0 .. nnodes - 1, e \in 0 .. nnodes - 1, k \in LinkKinds } :
        x.start_node < x.end_node }

\* Lists of links, grouped by start node (the order of the links of one
\* node is the order of its out_links).
LinkLists(nnodes) ==
    UNION { { l \in [1 .. n -> LinksOf(nnodes)] :
                \A i \in 1 .. n - 1 : l[i].start_node <= l[i + 1].start_node } :
            n \in 0 .. MaxLinks }

Lattices ==
    UNION { [nnodes : {n}, links : LinkLists(n), initial_node : {0},
             final_node : 0 .. n - 1, all_nodes : BOOLEAN] : n \in 1 .. MaxNodes }

OutLinksFirstOnly(lat, node) ==
    LET all == SelectSeq([i \in 1 .. Len(lat.links) |-> i],
                         LAMBDA i : lat.links[i].start_node = node)
    IN  IF all = << >> THEN << >> ELSE << Head(all) >>

\* Indices (into lattice.links) of node.out_links, in order.
OutLinks(lat, node) ==
    SelectSeq([i \in 1 .. Len(lat.links) |-> i],
              LAMBDA i : lat.links[i].start_node = node)

RECURSIVE Reachable(_, _)
Reachable(lat, node) ==
    \/ node = lat.initial_node
    \/ \E i \in 1 .. Len(lat.links) :
          lat.links[i].end_node = node /\ Reachable(lat, lat.links[i].start_node)

RECURSIVE Ascending(_)
Ascending(S) ==
    IF S = {} THEN << >>
    ELSE LET m == CHOOSE x \in S : \A y \in S : x <= y
         IN  <<m>> \o Ascending(S \ {m})

lattice_sorted_nodes(lat) ==
    Ascending({ n \in 0 .. lat.nnodes - 1 : lat.all_nodes \/ Reachable(lat, n) })

\* Every list of link indices that leads from node to the final node.
RECURSIVE PathsFrom(_, _)
PathsFrom(lat, node) ==
    IF node = lat.final_node THEN { << >> }
    ELSE UNION { { <<i>> \o p : p \in PathsFrom(lat, lat.links[i].end_node) } :
                 i \in { j \in 1 .. Len(lat.links) : lat.links[j].start_node = node } }

AllPaths(lat) == PathsFrom(lat, lat.initial_node)

(***************************************************************************)
(* The decoder's vocabulary and the network's step function                *)
(***************************************************************************)
DecoderVocabulary == from_file(<< <<"a">>, <<"b">> >>, "words").vocab

sos_id == DecoderVocabulary.word_to_id["<s>"]

eos_id == DecoderVocabulary.word_to_id["</s>"]

\* step_function outputs for one sequence of the batch: the log-probability
\* of the target class and the next recurrent state.
StepLogprob(word_input, class_input, state, target_class_id) ==
    -1 - ((word_input + target_class_id) % 2)

StepState(word_input, class_input, state) == Append(state, word_input)

(***************************************************************************)
(* LatticeDecoder.Token objects                                            *)
(*                                                                         *)
(* mem is the heap: mem.tok[t] is the Token object t, and mem.hist[h] the  *)
(* list object h; a token's history field holds the list's address.        *)
(* total_logprob exists once compute_total_logprob has run (scored).       *)
(***************************************************************************)
Token(history, state, ac_logprob, lat_lm_logprob, nn_lm_logprob) ==
    [history |-> history, state |-> state, ac_logprob |-> ac_logprob,
     lat_lm_logprob |-> lat_lm_logprob, nn_lm_logprob |-> nn_lm_logprob,
     scored |-> FALSE, total_logprob |-> 0]

HistoryOf(mem, t) == mem.hist[mem.tok[t].history]

\* Token.copy with the history list shared instead of deep-copied.
TokenCopyShallow(mem, t) ==
    [tok |-> Append(mem.tok,
                    Token(mem.tok[t].history, mem.tok[t].state, mem.tok[t].ac_logprob,
                          mem.tok[t].lat_lm_logprob, mem.tok[t].nn_lm_logprob)),
     hist |-> mem.hist]

\* Token.copy: the new token is the last object of the heap.
TokenCopy(mem, t) ==
    [tok |-> Append(mem.tok,
                    Token(Len(mem.hist) + 1, mem.tok[t].state, mem.tok[t].ac_logprob,
                          mem.tok[t].lat_lm_logprob, mem.tok[t].nn_lm_logprob)),
     hist |-> Append(mem.hist, HistoryOf(mem, t))]

\* [self.Token.copy(token) for token in node_tokens]: [mem, ids].
RECURSIVE CopyTokens(_, _)
CopyTokens(mem, node_tokens) ==
    IF node_tokens = << >> THEN [mem |-> mem, ids |-> << >>]
    ELSE LET rest == CopyTokens(mem, SubSeq(node_tokens, 1, Len(node_tokens) - 1))
             m == TokenCopy(rest.mem, Last(node_tokens))
         IN  [mem |-> m, ids |-> Append(rest.ids, Len(m.tok))]

AccumulateLinkSwapped(token, link) ==
    [token EXCEPT !.ac_logprob = @ + link.lm_logprob,
                  !.lat_lm_logprob = @ + link.ac_logprob]

\* token.ac_logprob += link.ac_logprob; token.lat_lm_logprob += link.lm_logprob
AccumulateLink(token, link) ==
    [token EXCEPT !.ac_logprob = @ + link.ac_logprob,
                  !.lat_lm_logprob = @ + link.lm_logprob]

RECURSIVE AccumulateAll(_, _, _)
AccumulateAll(mem, ids, link) ==
    IF ids = << >> THEN mem
    ELSE AccumulateAll([mem EXCEPT !.tok[Head(ids)] = AccumulateLink(@, link)],
                       Tail(ids), link)

(***************************************************************************)
(* LatticeDecoder.append_word                                              *)
(***************************************************************************)
\* The "for index, token in enumerate(tokens)" loop, from token index on.
RECURSIVE UpdateTokens(_, _, _, _, _, _)
UpdateTokens(mem, ids, index, target_word_id, outputs, weight) ==
    IF index > Len(ids) THEN mem
    ELSE LET t == ids[index]
             old == mem.tok[t]
             nn == old.nn_lm_logprob + outputs[index].logprob
             new == [old EXCEPT
                        !.state = outputs[index].state,
                        !.nn_lm_logprob = nn,
                        !.scored = TRUE,
                        !.total_logprob =
                            compute_total_logprob(old.ac_logprob, old.lat_lm_logprob,
                                                  nn, weight, 1)]
         IN  UpdateTokens([tok |-> [mem.tok EXCEPT ![t] = new],
                           hist |-> [mem.hist EXCEPT ![old.history] =
                                        Append(@, target_word_id)]],
                          ids, index + 1, target_word_id, outputs, weight)

\* One call of step_function on the batch of all the given tokens.
StepOutputs(mem, ids, target_word_id) ==
    LET v == DecoderVocabulary
        target_class_id == At(v.word_id_to_class_id, target_word_id)
    IN  [i \in 1 .. Len(ids) |->
            LET word_input == Last(HistoryOf(mem, ids[i]))
                class_input == At(v.word_id_to_class_id, word_input)
                state == mem.tok[ids[i]].state
            IN  [logprob |-> StepLogprob(word_input, class_input, state, target_class_id),
                 state |-> StepState(word_input, class_input, state)]]

append_word(mem, ids, target_word_id, weight) ==
    UpdateTokens(mem, ids, 1, target_word_id, StepOutputs(mem, ids, target_word_id),
                 weight)

PerTokenCalls(node, word_id, ids) ==
    [i \in 1 .. Len(ids) |-> [node |-> node, word_id |-> word_id, batch |-> 1]]

\* append_word calls self.step_function once, on the batch of all its tokens.
StepCalls(node, word_id, ids) ==
    << [node |-> node, word_id |-> word_id, batch |-> Len(ids)] >>

(***************************************************************************)
(* sorted(new_tokens, key=lambda token: token.total_logprob, reverse=True) *)
(***************************************************************************)
\* Sorting ascending and reversing the result: equal keys end up reversed.
RECURSIVE InsertAscending(_, _, _)
InsertAscending(mem, sorted, t) ==
    IF sorted = << >> THEN <<t>>
    ELSE IF mem.tok[Last(sorted)].total_logprob <= mem.tok[t].total_logprob
    THEN Append(sorted, t)
    ELSE Append(InsertAscending(mem, SubSeq(sorted, 1, Len(sorted) - 1), t), Last(sorted))

RECURSIVE SortedAscending(_, _)
SortedAscending(mem, ids) ==
    IF ids = << >> THEN << >>
    ELSE InsertAscending(mem, SortedAscending(mem, SubSeq(ids, 1, Len(ids) - 1)), Last(ids))

SortedReversedAscending(mem, ids) ==
    LET asc == SortedAscending(mem, ids)
    IN  [i \in 1 .. Len(asc) |-> asc[Len(asc) + 1 - i]]

\* Stable insertion from the left: a token goes after every token whose key
\* is greater than or equal to its own.
RECURSIVE InsertDescending(_, _, _)
InsertDescending(mem, sorted, t) ==
    IF sorted = << >> THEN <<t>>
    ELSE IF mem.tok[Last(sorted)].total_logprob >= mem.tok[t].total_logprob
    THEN Append(sorted, t)
    ELSE Append(InsertDescending(mem, SubSeq(sorted, 1, Len(sorted) - 1), t), Last(sorted))

RECURSIVE SortedDescendingFrom(_, _)
SortedDescendingFrom(mem, ids) ==
    IF ids = << >> THEN << >>
    ELSE InsertDescending(mem, SortedDescendingFrom(mem, SubSeq(ids, 1, Len(ids) - 1)),
                          Last(ids))

SortedByTotalLogprob(mem, ids) == SortedDescendingFrom(mem, ids)

(***************************************************************************)
(* State                                                                   *)
(***************************************************************************)
VARIABLES
    \* LatticeDecoder.decode: its position, its argument and its locals
    pc,          \* "for_node", "for_link", "returned", or the exception raised
    lattice,     \* the lattice being decoded
    weight,      \* self._weight
    sorted_nodes,\* the local sorted_nodes = lattice.sorted_nodes()
    node_index,  \* position of the for loop in sorted_nodes
    link_index,  \* position of the inner for loop in node.out_links
    tokens,      \* tokens[node.id]: the list of the token objects at the node
    mem,         \* the heap of Token objects and history lists
    new_tokens,  \* the list new_tokens of the last copy
    result,      \* the returned list
    step_calls,  \* one record for each call of self.step_function
    \* a Vocabulary factory call and the lookups on what it returned
    vpc,         \* "start", "built" or "raised"
    vcall,       \* the factory and its arguments
    vout,        \* the factory's outcome: [err, vocab]
    vquery,      \* the last lookup and its result
    \* one call of Token.compute_total_logprob
    spc,         \* "start" or "done"
    sargs,       \* the token's log-probabilities, nn_lm_weight and lm_scale
    stotal       \* self.total_logprob after the call

decoder_vars ==
    <<pc, lattice, weight, sorted_nodes, node_index, link_index, tokens, mem, new_tokens, result,
      step_calls>>

vocab_vars == <<vpc, vcall, vout, vquery>>

score_vars == <<spc, sargs, stotal>>

vars == <<decoder_vars, vocab_vars, score_vars>>

(***************************************************************************)
(* LatticeDecoder.decode                                                   *)
(***************************************************************************)
NoLattice ==
    [nnodes |-> 1, links |-> << >>, initial_node |-> 0, final_node |-> 0,
     all_nodes |-> TRUE]

DecoderIdle ==
    /\ pc = "idle"
    /\ lattice = NoLattice
    /\ weight = 1
    /\ sorted_nodes = << >>
    /\ node_index = 0
    /\ link_index = 0
    /\ tokens = [n \in {0} |-> << >>]
    /\ mem = [tok |-> << >>, hist |-> << >>]
    /\ new_tokens = << >>
    /\ result = << >>
    /\ step_calls = << >>

\* decode up to "sorted_nodes = lattice.sorted_nodes()"
DecodeStart(lat, w) ==
    /\ pc = "for_node"
    /\ lattice = lat
    /\ weight = w
    /\ sorted_nodes = lattice_sorted_nodes(lat)
    /\ node_index = 0
    /\ link_index = 0
    /\ mem = [tok |-> << Token(1, << >>, 0, 0, 0) >>, hist |-> << <<sos_id>> >>]
    /\ tokens = [n \in 0 .. lat.nnodes - 1 |->
                    IF n = lat.initial_node THEN <<1>> ELSE << >>]
    /\ new_tokens = << >>
    /\ result = << >>
    /\ step_calls = << >>

Terminal == {"returned", "AssertionError", "KeyError", "NameError"}

AtNode == pc = "for_node" /\ node_index < Len(sorted_nodes)

Node == At(sorted_nodes, node_index)

Link == lattice.links[At(OutLinks(lattice, Node), link_index)]

\* The for loop is exhausted: "raise InputError(...)", and the module never
\* imports the name InputError.
RaiseNotReached ==
    /\ UNCHANGED <<vocab_vars, score_vars>>
    /\ pc = "for_node"
    /\ node_index = Len(sorted_nodes)
    /\ pc' = "NameError"
    /\ UNCHANGED <<lattice, weight, sorted_nodes, node_index, link_index, tokens, mem, new_tokens,
                   result, step_calls>>

\* assert node_tokens
AssertNodeTokens ==
    /\ UNCHANGED <<vocab_vars, score_vars>>
    /\ AtNode
    /\ tokens[Node] = << >>
    /\ pc' = "AssertionError"
    /\ UNCHANGED <<lattice, weight, sorted_nodes, node_index, link_index, tokens, mem, new_tokens,
                   result, step_calls>>

\* The final node: copy, append </s>, return the sorted copies.
ReturnFinalTokens ==
    /\ UNCHANGED <<vocab_vars, score_vars>>
    /\ AtNode
    /\ tokens[Node] # << >>
    /\ Node = lattice.final_node
    /\ LET c == CopyTokens(mem, tokens[Node])
           m == append_word(c.mem, c.ids, eos_id, weight)
       IN  /\ mem' = m
           /\ new_tokens' = c.ids
           /\ result' = SortedByTotalLogprob(m, c.ids)
           /\ step_calls' = step_calls \o StepCalls(Node, eos_id, c.ids)
    /\ pc' = "returned"
    /\ UNCHANGED <<lattice, weight, sorted_nodes, node_index, link_index, tokens>>

\* A node that is not the final node: enter "for link in node.out_links".
EnterNode ==
    /\ UNCHANGED <<vocab_vars, score_vars>>
    /\ AtNode
    /\ tokens[Node] # << >>
    /\ Node # lattice.final_node
    /\ pc' = "for_link"
    /\ link_index' = 0
    /\ UNCHANGED <<lattice, weight, sorted_nodes, node_index, tokens, mem, new_tokens, result,
                   step_calls>>

AtLink == pc = "for_link" /\ link_index < Len(OutLinks(lattice, Node))

\* if not link.word.startswith('!')
NeedsWord(link) == ~StartsWithBang(link.word)

\* One iteration of the inner loop.
PropagateLink ==
    /\ UNCHANGED <<vocab_vars, score_vars>>
    /\ AtLink
    /\ NeedsWord(Link) => Link.word \in DOMAIN DecoderVocabulary.word_to_id
    /\ LET c == CopyTokens(mem, tokens[Node])
           m == AccumulateAll(c.mem, c.ids, Link)
           word_id == DecoderVocabulary.word_to_id[Link.word]
       IN  /\ new_tokens' = c.ids
           /\ IF NeedsWord(Link)
              THEN /\ mem' = append_word(m, c.ids, word_id, weight)
                   /\ step_calls' = step_calls \o StepCalls(Node, word_id, c.ids)
              ELSE /\ mem' = m
                   /\ UNCHANGED step_calls
           /\ tokens' = [tokens EXCEPT ![Link.end_node] = @ \o c.ids]
    /\ link_index' = link_index + 1
    /\ UNCHANGED <<pc, lattice, weight, sorted_nodes, node_index, result>>

\* self._vocabulary.word_to_id[link.word] of a word that is not in the dict.
UnknownWord ==
    /\ UNCHANGED <<vocab_vars, score_vars>>
    /\ AtLink
    /\ NeedsWord(Link)
    /\ Link.word \notin DOMAIN DecoderVocabulary.word_to_id
    /\ pc' = "KeyError"
    /\ UNCHANGED <<lattice, weight, sorted_nodes, node_index, link_index, tokens, mem, new_tokens,
                   result, step_calls>>

\* The inner loop is exhausted: the outer loop takes the next node.
NextNode ==
    /\ UNCHANGED <<vocab_vars, score_vars>>
    /\ pc = "for_link"
    /\ link_index = Len(OutLinks(lattice, Node))
    /\ pc' = "for_node"
    /\ node_index' = node_index + 1
    /\ link_index' = 0
    /\ UNCHANGED <<lattice, weight, sorted_nodes, tokens, mem, new_tokens, result, step_calls>>


(***************************************************************************)
(* Vocabulary factories and lookups                                        *)
(***************************************************************************)
InputFormats == {"words", "classes", "srilm-classes"}

FileWords == {"a", "b", "<s>"}

ClassFields == {"7", "07", "9", "X"}

SrilmClassFields == {"7", "9"}

ProbFields == {"0", "2", "p"}

\* The lines a file of the format is made of: blank, well-formed in every
\* field content, and one line of each wrong field count.
FileLines(input_format) ==
    { << >> } \cup
    ( CASE input_format = "words" ->
             { <<w>> : w \in FileWords } \cup { <<"a", "7">>, <<"7", "2", "a">> }
        [] input_format = "classes" ->
             { <<w, c>> : w \in FileWords, c \in ClassFields }
             \cup { <<"a">>, <<"7", "2", "a">> }
        [] OTHER ->
             { <<c, p, w>> : c \in SrilmClassFields, p \in ProbFields, w \in FileWords }
             \cup { <<"a">>, <<"a", "7">> } )

Files(input_format) ==
    UNION { [1 .. n -> FileLines(input_format)] : n \in 0 .. MaxLines }

\* The items of a word_counts dict: distinct words, each with its count.
WordCountLists ==
    UNION { { l \in [1 .. n -> FileWords \X {1, 2}] :
                \A i, j \in 1 .. n : i # j => l[i][1] # l[j][1] } :
            n \in 0 .. MaxLines }

NumClassesArgs == {NumClassesNone, 0, 1, 2}

NoCall ==
    [factory |-> "none", input_file |-> << >>, input_format |-> "",
     word_counts |-> << >>, num_classes |-> NumClassesNone]

NoQuery == [op |-> "none", word_id |-> 0, label |-> Label("", "", -1),
            err |-> "none", prob |-> RatZero]

VocabStart ==
    /\ vpc = "start"
    /\ vcall = NoCall
    /\ vout = Raised("none")
    /\ vquery = NoQuery

VocabIdle ==
    /\ vpc = "idle"
    /\ vcall = NoCall
    /\ vout = Raised("none")
    /\ vquery = NoQuery

FromFile ==
    /\ UNCHANGED <<decoder_vars, score_vars>>
    /\ vpc = "start"
    /\ \E input_format \in InputFormats :
         \E input_file \in Files(input_format) :
            /\ vcall' = [NoCall EXCEPT !.factory = "from_file",
                                       !.input_file = input_file,
                                       !.input_format = input_format]
            /\ vout' = from_file(input_file, input_format)
    /\ vpc' = IF vout'.err = "none" THEN "built" ELSE "raised"
    /\ UNCHANGED vquery

FromWordCounts ==
    /\ UNCHANGED <<decoder_vars, score_vars>>
    /\ vpc = "start"
    /\ \E word_counts \in WordCountLists :
         \E n \in NumClassesArgs :
            /\ vcall' = [NoCall EXCEPT !.factory = "from_word_counts",
                                       !.word_counts = word_counts,
                                       !.num_classes = n]
            /\ vout' = from_word_counts(word_counts, n)
    /\ vpc' = IF vout'.err = "none" THEN "built" ELSE "raised"
    /\ UNCHANGED vquery

\* word_ids_to_classes([word_id])
WordIdsToClasses ==
    /\ UNCHANGED <<decoder_vars, score_vars>>
    /\ vpc = "built"
    /\ \E word_id \in Ids(vout.vocab.id_to_word) :
          vquery' = [NoQuery EXCEPT !.op = "word_ids_to_classes",
                                    !.word_id = word_id,
                                    !.label = word_id_to_class_label(vout.vocab, word_id)]
    /\ UNCHANGED <<vpc, vcall, vout>>

\* get_word_prob(word_id)
GetWordProb ==
    /\ UNCHANGED <<decoder_vars, score_vars>>
    /\ vpc = "built"
    /\ \E word_id \in Ids(vout.vocab.id_to_word) :
          LET r == get_word_prob(vout.vocab, word_id)
          IN  vquery' = [NoQuery EXCEPT !.op = "get_word_prob", !.word_id = word_id,
                                        !.err = r.err, !.prob = r.prob]
    /\ UNCHANGED <<vpc, vcall, vout>>

VocabNext ==
    \/ FromFile
    \/ FromWordCounts
    \/ WordIdsToClasses
    \/ GetWordProb

(***************************************************************************)
(* One call of Token.compute_total_logprob                                 *)
(***************************************************************************)
LogprobSamples == {0, -1, -708, -745, -746, -1000, -2302582, -2302618, -2302619}

ScoreArgs ==
    [ac_logprob : {0, -3}, lat_lm_logprob : LogprobSamples,
     nn_lm_logprob : LogprobSamples, nn_lm_weight : {0, 1}, lm_scale : {1, 2}]

ScoreIdle ==
    /\ spc = "idle"
    /\ sargs = [ac_logprob |-> 0, lat_lm_logprob |-> 0, nn_lm_logprob |-> 0,
                nn_lm_weight |-> 1, lm_scale |-> 1]
    /\ stotal = 0

ComputeTotalLogprob ==
    /\ UNCHANGED <<decoder_vars, vocab_vars>>
    /\ spc = "start"
    /\ stotal' = compute_total_logprob(sargs.ac_logprob, sargs.lat_lm_logprob,
                                       sargs.nn_lm_logprob, sargs.nn_lm_weight,
                                       sargs.lm_scale)
    /\ spc' = "done"
    /\ UNCHANGED sargs

ScoreNext == ComputeTotalLogprob

(***************************************************************************)
(* Specifications                                                          *)
(***************************************************************************)
\* decode on every lattice of the bounds, with the weights 1.0 and 0.0
Init ==
    /\ \E lat \in Lattices : \E w \in {0, 1} : DecodeStart(lat, w)
    /\ VocabIdle
    /\ ScoreIdle

Next ==
    \/ RaiseNotReached
    \/ AssertNodeTokens
    \/ ReturnFinalTokens
    \/ EnterNode
    \/ PropagateLink
    \/ UnknownWord
    \/ NextNode

Spec == Init /\ [][Next]_vars

\* a vocabulary factory on every input of the bounds, then lookups
VocabInit ==
    /\ DecoderIdle
    /\ VocabStart
    /\ ScoreIdle

VocabSpec == VocabInit /\ [][VocabNext]_vars

\* compute_total_logprob on every token and weight of the samples
ScoreInit ==
    /\ DecoderIdle
    /\ VocabIdle
    /\ spc = "start"
    /\ sargs \in ScoreArgs
    /\ stotal = 0

ScoreSpec == ScoreInit /\ [][ScoreNext]_vars

(***************************************************************************)
(* Properties of decode                                                    *)
(***************************************************************************)
Position(list, x) == CHOOSE i \in 1 .. Len(list) : list[i] = x

Total(t) == mem.tok[t].total_logprob

FinalUnreachable == ~Reachable(lattice, lattice.final_node)

AllWordsKnown ==
    \A i \in 1 .. Len(lattice.links) :
        \/ StartsWithBang(lattice.links[i].word)
        \/ lattice.links[i].word \in DOMAIN DecoderVocabulary.word_to_id

\* C1: when decode returns, the returned list is a permutation of the copies
\* made of the final node's tokens (each the final node's token with </s>
\* appended), it is ordered by total_logprob descending, and tokens of equal
\* total_logprob keep the order they had in the final node's token list.
C1_ReturnedSortedStable ==
    pc = "returned" =>
        /\ Len(new_tokens) = Len(tokens[lattice.final_node])
        /\ \A i \in 1 .. Len(new_tokens) :
              /\ HistoryOf(mem, new_tokens[i]) =
                     Append(HistoryOf(mem, tokens[lattice.final_node][i]), eos_id)
              /\ mem.tok[new_tokens[i]].scored
        /\ Len(result) = Len(new_tokens)
        /\ \A i \in 1 .. Len(new_tokens) :
              Cardinality({ j \in 1 .. Len(result) : result[j] = new_tokens[i] }) = 1
        /\ \A i, j \in 1 .. Len(result) :
              i < j =>
                 /\ Total(result[i]) >= Total(result[j])
                 /\ Total(result[i]) = Total(result[j]) =>
                       Position(new_tokens, result[i]) < Position(new_tokens, result[j])

\* C1 witness: decode returned two tokens of equal total_logprob.
C1_Witness ==
    /\ pc = "returned"
    /\ \E i, j \in 1 .. Len(result) : i < j /\ Total(result[i]) = Total(result[j])

\* decode returned two tokens in another order than the final node's list.
C1_WitnessReordered ==
    /\ pc = "returned"
    /\ \E i, j \in 1 .. Len(result) :
          i < j /\ Position(new_tokens, result[i]) > Position(new_tokens, result[j])

\* C2: on a lattice whose final node is unreachable from the initial node
\* (and whose words are all known), decode ends only by raising the decoding
\* error of its last line: it neither returns nor raises another error.
C2_UnreachableFinalRaisesDecodingError ==
    (FinalUnreachable /\ AllWordsKnown /\ pc \in Terminal) => pc = "InputError"

\* The links whose iteration of the inner loop has completed.
PropagatedLinks ==
    { i \in 1 .. Len(lattice.links) :
        \/ \E k \in 0 .. node_index - 1 :
              k < Len(sorted_nodes) /\ At(sorted_nodes, k) = lattice.links[i].start_node
        \/ /\ pc \in {"for_link", "KeyError"}
           /\ lattice.links[i].start_node = Node
           /\ \E k \in 0 .. link_index - 1 : At(OutLinks(lattice, Node), k) = i }

\* C7 as claimed: when decode returns, the step function has been invoked
\* once for every node processed (the nodes up to the final node in
\* sorted_nodes), whatever the number of their outgoing links.
C7_OneStepCallPerNode ==
    pc = "returned" => Len(step_calls) = node_index + 1

\* C7 as amended: in every state, the step function has been invoked once
\* for every propagated link whose word does not start with '!', plus once
\* at the final node when decode has returned, each time on a batch of all
\* the tokens of the link's start node (of the final node).
C7_OneStepCallPerWordLink ==
    /\ Len(step_calls) =
          Cardinality({ i \in PropagatedLinks : ~StartsWithBang(lattice.links[i].word) })
          + (IF pc = "returned" THEN 1 ELSE 0)
    /\ \A k \in 1 .. Len(step_calls) :
          step_calls[k].batch = Len(tokens[step_calls[k].node])

\* C7 witness: decode returned from a lattice with a node that has two
\* outgoing word links and holds tokens: three invocations for two nodes.
C7_Witness ==
    /\ pc = "returned"
    /\ \E i, j \in PropagatedLinks :
          /\ i # j
          /\ lattice.links[i].start_node = lattice.links[j].start_node
          /\ ~StartsWithBang(lattice.links[i].word)
          /\ ~StartsWithBang(lattice.links[j].word)

RECURSIVE PathWords(_, _)
PathWords(lat, path) ==
    IF path = << >> THEN << >>
    ELSE LET link == lat.links[Head(path)]
         IN  (IF StartsWithBang(link.word) THEN << >>
              ELSE << DecoderVocabulary.word_to_id[link.word] >>)
             \o PathWords(lat, Tail(path))

RECURSIVE PathAcLogprob(_, _)
PathAcLogprob(lat, path) ==
    IF path = << >> THEN 0
    ELSE lat.links[Head(path)].ac_logprob + PathAcLogprob(lat, Tail(path))

RECURSIVE PathLmLogprob(_, _)
PathLmLogprob(lat, path) ==
    IF path = << >> THEN 0
    ELSE lat.links[Head(path)].lm_logprob + PathLmLogprob(lat, Tail(path))

PathToken(lat, path) ==
    [history |-> <<sos_id>> \o PathWords(lat, path) \o <<eos_id>>,
     ac_logprob |-> PathAcLogprob(lat, path),
     lat_lm_logprob |-> PathLmLogprob(lat, path)]

TokenValue(t) ==
    [history |-> HistoryOf(mem, t), ac_logprob |-> mem.tok[t].ac_logprob,
     lat_lm_logprob |-> mem.tok[t].lat_lm_logprob]

\* C8: when decode returns, the returned tokens correspond one to one to the
\* link paths from the initial node to the final node: there are as many
\* tokens as paths, and every path's token value (history <s>, the IDs of the
\* path's words that do not start with '!', </s>; the sums of the path's
\* acoustic and LM log-probabilities) is the value of as many returned
\* tokens as there are paths with that value.
C8_TokensArePaths ==
    pc = "returned" =>
        /\ Len(result) = Cardinality(AllPaths(lattice))
        /\ \A p \in AllPaths(lattice) :
              Cardinality({ i \in 1 .. Len(result) :
                              TokenValue(result[i]) = PathToken(lattice, p) })
              = Cardinality({ q \in AllPaths(lattice) :
                                PathToken(lattice, q) = PathToken(lattice, p) })

\* C8 witness: decode returned from a lattice with several paths to the
\* final node, one of them over a link whose word starts with '!'.
C8_Witness ==
    /\ pc = "returned"
    /\ Cardinality(AllPaths(lattice)) >= 2
    /\ \E p \in AllPaths(lattice) :
          \E k \in 1 .. Len(p) : StartsWithBang(lattice.links[p[k]].word)
    /\ \E p \in AllPaths(lattice) : Len(PathWords(lattice, p)) >= 1

\* The number of references to the token object in the node token lists.
NodeReferences(t) ==
    Cardinality(UNION { { <<n, i>> : i \in { k \in 1 .. Len(tokens[n]) : tokens[n][k] = t } } :
                        n \in DOMAIN tokens })

NoTokenInTwoLists == \A t \in 1 .. Len(mem.tok) : NodeReferences(t) <= 1

NoSharedHistory ==
    \A t, u \in 1 .. Len(mem.tok) : t # u => mem.tok[t].history # mem.tok[u].history

TokenFields(m, t) ==
    [history |-> HistoryOf(m, t), ac_logprob |-> m.tok[t].ac_logprob,
     lat_lm_logprob |-> m.tok[t].lat_lm_logprob,
     nn_lm_logprob |-> m.tok[t].nn_lm_logprob]

\* A step leaves every token of every node token list as it is.
NodeTokensKept ==
    \A n \in DOMAIN tokens :
        \A i \in 1 .. Len(tokens[n]) :
            TokenFields(mem', tokens[n][i]) = TokenFields(mem, tokens[n][i])

\* C12: in every state of decode no token object is in two node token lists
\* (or twice in one) and no two token objects hold the same history list; and
\* no step changes the history, ac_logprob, lat_lm_logprob or nn_lm_logprob of
\* a token that is in a node's token list.
C12_TokensOwnedAndFrozen ==
    /\ [](NoTokenInTwoLists /\ NoSharedHistory)
    /\ [][NodeTokensKept]_vars

\* C12 witness: decode returned after fan-out: a token of a node's list has
\* a copy with a longer history and other log-probabilities, and a node holds
\* two tokens.
C12_Witness ==
    /\ pc = "returned"
    /\ \E n \in DOMAIN tokens : Len(tokens[n]) >= 2
    /\ \E n \in DOMAIN tokens :
          \E i \in 1 .. Len(tokens[n]) :
              \E u \in 1 .. Len(mem.tok) :
                  /\ Len(HistoryOf(mem, u)) > Len(HistoryOf(mem, tokens[n][i]))
                  /\ SubSeq(HistoryOf(mem, u), 1, Len(HistoryOf(mem, tokens[n][i])))
                         = HistoryOf(mem, tokens[n][i])
                  /\ mem.tok[u].nn_lm_logprob # mem.tok[tokens[n][i]].nn_lm_logprob

\* The node is at or before the position of the outer loop.
Processed(n) ==
    \E k \in 0 .. node_index : k < Len(sorted_nodes) /\ At(sorted_nodes, k) = n

InLinks(n) == { i \in 1 .. Len(lattice.links) : lattice.links[i].end_node = n }

RECURSIVE TokensOverLinks(_)
TokensOverLinks(S) ==
    IF S = {} THEN 0
    ELSE LET i == CHOOSE x \in S : TRUE
         IN  Len(tokens[lattice.links[i].start_node]) + TokensOverLinks(S \ {i})

BeingProcessed == pc \in {"for_link", "returned"}

\* The node being processed holds a token for every token of every
\* predecessor (and the initial token), and its predecessors that hold
\* tokens are earlier nodes of the loop.
NodeHasAllPredecessorTokens ==
    BeingProcessed =>
        /\ \A i \in InLinks(Node) :
              tokens[lattice.links[i].start_node] # << >> =>
                 /\ lattice.links[i].start_node # Node
                 /\ Processed(lattice.links[i].start_node)
        /\ Len(tokens[Node]) =
              (IF Node = lattice.initial_node THEN 1 ELSE 0) + TokensOverLinks(InLinks(Node))

\* A step changes the token list of no node that the loop is at or has left.
NoAppendToProcessed ==
    \A n \in DOMAIN tokens :
        Processed(n) => tokens'[n] = tokens[n]

\* C13: with sorted_nodes consistent with link direction, no step of decode
\* appends a token to the list of a node that is being or has been
\* processed; and while a node is processed, every predecessor that holds
\* tokens is an earlier node of the loop and the node's list holds one token
\* for each token of each incoming link's start node.
C13_NoAppendAfterProcessing ==
    /\ []NodeHasAllPredecessorTokens
    /\ [][NoAppendToProcessed]_vars

\* C13 witness: decode returned at a node that has a predecessor other than
\* the initial node, which holds tokens and has contributed them.
C13_Witness ==
    /\ pc = "returned"
    /\ \E i \in InLinks(Node) :
          /\ lattice.links[i].start_node # lattice.initial_node
          /\ tokens[lattice.links[i].start_node] # << >>
    /\ Len(tokens[Node]) >= 1

\* C14: on a lattice whose final node is reachable from the initial node and
\* whose link words are all in the vocabulary or start with '!', the
\* assertion on a visited node's tokens never fails and decode ends only by
\* returning a non-empty token list, whether or not the lattice has nodes
\* that are unreachable from the initial node.
C14_ReachableFinalReturnsTokens ==
    (~FinalUnreachable /\ AllWordsKnown) =>
        /\ pc # "AssertionError"
        /\ pc \in Terminal => (pc = "returned" /\ result # << >>)

\* The same, for a sorted_nodes that lists no unreachable node before the
\* final node.
C14_ReturnsWhenVisitedNodesReachable ==
    (/\ ~FinalUnreachable
     /\ AllWordsKnown
     /\ \A k \in 1 .. Len(sorted_nodes) :
           sorted_nodes[k] <= lattice.final_node => Reachable(lattice, sorted_nodes[k]))
    => /\ pc # "AssertionError"
       /\ pc \in Terminal => (pc = "returned" /\ result # << >>)

(***************************************************************************)
(* Properties of the vocabulary factories                                  *)
(***************************************************************************)
Built == vpc = "built"

V == vout.vocab

ClassOfWord(v, word_id) == At(v.word_classes, At(v.word_id_to_class_id, word_id))

\* The word field of a line that has the field count of the format.
LineWord(fields, input_format) ==
    IF input_format = "srilm-classes" THEN fields[3] ELSE fields[1]

WellCounted(fields, input_format) == Len(fields) = FieldCount(input_format)

\* The words the factory was given.
InputWords ==
    IF vcall.factory = "from_file"
    THEN { LineWord(vcall.input_file[i], vcall.input_format) :
             i \in { j \in 1 .. Len(vcall.input_file) :
                       WellCounted(vcall.input_file[j], vcall.input_format) } }
    ELSE { vcall.word_counts[i][1] : i \in 1 .. Len(vcall.word_counts) }

SpecialsInserted ==
    Cardinality({ k \in 1 .. Len(SpecialWords) : SpecialWords[k] \notin InputWords })

\* C3: in every vocabulary a factory built, each of <s>, </s>, <unk> is a
\* word, the class it maps to holds that word only, with membership
\* probability 1, and first_normal_word_id and first_normal_class_id are the
\* number of special entries the constructor inserted.
C3_SpecialWordsAreSingletons ==
    Built =>
        /\ \A k \in 1 .. Len(SpecialWords) :
              /\ SpecialWords[k] \in DOMAIN V.word_to_id
              /\ LET word_id == V.word_to_id[SpecialWords[k]]
                     probs == ClassOfWord(V, word_id).probs
                 IN  /\ Len(probs) = 1
                     /\ probs[1].word_id = word_id
                     /\ probs[1].prob = RatOne
        /\ V.first_normal_word_id = SpecialsInserted
        /\ V.first_normal_class_id = SpecialsInserted

\* C4: in every vocabulary a factory built, every word ID of
\* 0 .. num_words()-1 has a class ID, is a member of exactly one word class,
\* the one at index word_id_to_class_id[w] (so that get_word_prob(w) is
\* defined), and the classes hold word IDs only.
C4_EveryWordInExactlyItsClass ==
    Built =>
        /\ Len(V.word_id_to_class_id) = num_words(V)
        /\ \A w \in Ids(V.id_to_word) :
              /\ At(V.word_id_to_class_id, w) \in Ids(V.word_classes)
              /\ { c \in Ids(V.word_classes) : HasMember(At(V.word_classes, c), w) }
                     = { At(V.word_id_to_class_id, w) }
              /\ Cardinality({ i \in 1 .. Len(ClassOfWord(V, w).probs) :
                                 ClassOfWord(V, w).probs[i].word_id = w }) = 1
              /\ get_word_prob(V, w).err = "none"
        /\ \A c \in Ids(V.word_classes) :
              \A i \in 1 .. Len(At(V.word_classes, c).probs) :
                  At(V.word_classes, c).probs[i].word_id \in Ids(V.id_to_word)

\* C4 witness: a vocabulary with a class of several words, built from an
\* input that holds a special word itself.
C4_Witness ==
    /\ Built
    /\ V.first_normal_word_id < Len(SpecialWords)
    /\ \E c \in Ids(V.word_classes) : Len(At(V.word_classes, c).probs) >= 2

\* A from_file input with a line of the wrong field count, or with a word
\* on more than one line.
Defective ==
    LET f == vcall.input_file
        fmt == vcall.input_format
    IN  \/ \E i \in 1 .. Len(f) : f[i] # << >> /\ ~WellCounted(f[i], fmt)
        \/ \E i, j \in 1 .. Len(f) :
              /\ i < j
              /\ WellCounted(f[i], fmt)
              /\ WellCounted(f[j], fmt)
              /\ LineWord(f[i], fmt) = LineWord(f[j], fmt)

\* C5: from_file raises the format error, and returns no vocabulary, when a
\* non-blank line has another field count than the format's or a word is on
\* more than one line; on every other input it returns a vocabulary.
C5_FormatErrorIffDefective ==
    (vcall.factory = "from_file" /\ vpc \in {"built", "raised"}) =>
        IF Defective THEN vpc = "raised" /\ vout.err = "InputError"
        ELSE vpc = "built" /\ vout.err = "none"

\* C6: the class label of a word ID is the word itself when the class of the
\* word (word_id_to_class_id[w]) has one member, and otherwise a label made
\* of that class's integer class ID.
C6_ClassLabelOfWord ==
    (Built /\ vquery.op = "word_ids_to_classes") =>
        LET w == vquery.word_id
        IN  IF Len(ClassOfWord(V, w).probs) = 1
            THEN vquery.label = Label("word", At(V.id_to_word, w), -1)
            ELSE vquery.label = Label("CLASS-", "", At(V.word_id_to_class_id, w))

\* C10: in every vocabulary a factory built, the membership probabilities of
\* every word class sum to 1, and normalize_probs applied to the class again
\* leaves them as they are.
C10_ClassProbsSumToOne ==
    Built =>
        \A c \in Ids(V.word_classes) :
            /\ ProbSum(At(V.word_classes, c)) = RatOne
            /\ CanNormalize(At(V.word_classes, c))
            /\ normalize_probs(At(V.word_classes, c)) = At(V.word_classes, c)

\* C10 witness: a vocabulary built from an srilm-classes file whose weights
\* of one class are 0 and 2: unnormalized, one of them zero.
C10_Witness ==
    /\ Built
    /\ vcall.input_format = "srilm-classes"
    /\ \E c \in Ids(V.word_classes) :
          LET probs == At(V.word_classes, c).probs
          IN  /\ Len(probs) = 2
              /\ \E i \in 1 .. 2 : probs[i].prob = RatZero
    /\ \E i, j \in 1 .. Len(vcall.input_file) :
          /\ Len(vcall.input_file[i]) = 3
          /\ Len(vcall.input_file[j]) = 3
          /\ vcall.input_file[i][1] = vcall.input_file[j][1]
          /\ vcall.input_file[i][2] = "0"
          /\ vcall.input_file[j][2] = "2"

\* The class tag of a line of a class file: the integer the second field
\* denotes (classes), the first field (srilm-classes).
LineTag(fields, input_format) ==
    IF input_format = "classes" THEN <<"int", IntValue(fields[2])>>
    ELSE <<"str", fields[1]>>

NonBlankLines == { i \in 1 .. Len(vcall.input_file) : vcall.input_file[i] # << >> }

TagOfLine(i) == LineTag(vcall.input_file[i], vcall.input_format)

FileTags == { TagOfLine(i) : i \in NonBlankLines }

FirstLineOfTag(tag) ==
    CHOOSE i \in NonBlankLines :
        /\ TagOfLine(i) = tag
        /\ \A j \in NonBlankLines : TagOfLine(j) = tag => i <= j

\* The number of distinct tags that appear before the tag's first line.
TagRank(tag) ==
    Cardinality({ TagOfLine(j) : j \in { k \in NonBlankLines : k < FirstLineOfTag(tag) } })

ClassIdOfLine(i) ==
    At(V.word_id_to_class_id,
       V.word_to_id[LineWord(vcall.input_file[i], vcall.input_format)])

BuiltFromClassFile ==
    /\ Built
    /\ vcall.factory = "from_file"
    /\ vcall.input_format \in {"classes", "srilm-classes"}

\* C11: in every vocabulary from_file built from a classes or srilm-classes
\* file, the word of a line has the class ID first_normal_class_id + k, where
\* k is the number of distinct tags that first appear before the line's tag;
\* the words of two lines have the same class ID if and only if the lines
\* carry the same tag; and num_classes() is first_normal_class_id plus the
\* number of distinct tags of the file.
C11_TagsToConsecutiveClassIds ==
    BuiltFromClassFile =>
        /\ \A i \in NonBlankLines :
              ClassIdOfLine(i) = V.first_normal_class_id + TagRank(TagOfLine(i))
        /\ \A i, j \in NonBlankLines :
              (ClassIdOfLine(i) = ClassIdOfLine(j)) <=> (TagOfLine(i) = TagOfLine(j))
        /\ num_classes(V) = V.first_normal_class_id + Cardinality(FileTags)

\* C11 witness: a vocabulary built from a classes file whose first tag is 9
\* and whose later lines carry the tag 7, written "7" and "07".
C11_Witness ==
    /\ BuiltFromClassFile
    /\ vcall.input_format = "classes"
    /\ \E i, j, k \in NonBlankLines :
          /\ i < j
          /\ j < k
          /\ vcall.input_file[i][2] = "9"
          /\ vcall.input_file[j][2] = "7"
          /\ vcall.input_file[k][2] = "07"

(***************************************************************************)
(* Properties of compute_total_logprob                                     *)
(***************************************************************************)
\* The log-probability the weight selects: nn_lm_logprob for 1.0,
\* lat_lm_logprob for 0.0.
Selected ==
    IF sargs.nn_lm_weight = 1 THEN sargs.nn_lm_logprob ELSE sargs.lat_lm_logprob

SelectedTotal == sargs.ac_logprob + sargs.lm_scale * Selected

\* C9 as claimed: for every token and lm_scale, total_logprob is
\* ac_logprob + lm_scale * nn_lm_logprob with nn_lm_weight 1.0 and
\* ac_logprob + lm_scale * lat_lm_logprob with 0.0, on the direct and on the
\* fallback path, and it is a finite number.
C9_TotalIsSelectedAndFinite ==
    spc = "done" => stotal # NegInfinity /\ stotal = SelectedTotal

\* The selected log-probability is in the range where the exp() of the path
\* taken is a normal number.
SelectedInRange ==
    IF UsesFallback(sargs.lat_lm_logprob, sargs.nn_lm_logprob)
    THEN Selected >= MinNormalDecimalExpArg
    ELSE Selected >= MinNormalDoubleExpArg

\* C9 as amended: the same, for the tokens whose selected log-probability is
\* at least -708 when the direct path is taken and at least -2302582 when
\* the fallback path is taken.
C9_TotalIsSelectedInRange ==
    (spc = "done" /\ SelectedInRange) =>
        stotal # NegInfinity /\ stotal = SelectedTotal

\* C9 witness: a call in range that took the fallback path because the exp()
\* of the selected log-probability underflowed to zero.
C9_Witness ==
    /\ spc = "done"
    /\ SelectedInRange
    /\ UsesFallback(sargs.lat_lm_logprob, sargs.nn_lm_logprob)
    /\ FloatExp(Selected).zero
    /\ sargs.lm_scale = 2

=============================================================================
